---- MODULE Spec2Model ----
(***************************************************************************)
(* Model of src/worker.py: the Worker thread that owns the OAK pipeline,   *)
(* its embedded WorkerManager watcher thread, and the asynchronous         *)
(* accessors get_color_image / get_depth_map / get_pcd.                    *)
(*                                                                         *)
(* The two threads are program counters (wpc, mpc); one action is one      *)
(* stretch of code that reads or writes state shared with another thread   *)
(* at most once.  The accessors are coroutines of one asyncio event loop:  *)
(* they interleave with each other only at `await asyncio.sleep(1)`, and   *)
(* with the two threads everywhere.                                         *)
(***************************************************************************)
EXTENDS Naturals, FiniteSets, Sequences, TLC

\* ---------------------------------------------------------------- constants
MAX_PIPELINE_FAILURES == 3
MAX_GRPC_MESSAGE_BYTE_COUNT == 4194304

\* ---------------------------------------------------------------- bounds
\* number of frames the device delivers over one behaviour
MaxFrames == 2
\* longest run of failing pipeline attempts with no completed round between
MaxFaults == 4
\* a point cloud has up to 135 * MaxScale rows and 240 * MaxScale columns
MaxScale == 8

Modalities == {"color", "depth", "pcd"}

VARIABLES
    user_wants_color,      \* Worker.user_wants_color  (static configuration)
    user_wants_depth,      \* Worker.user_wants_depth  (static configuration)
    color_image,           \* Worker.color_image
    depth_map,             \* Worker.depth_map
    pcd,                   \* Worker.pcd
    get_pcd_was_invoked,   \* Worker.get_pcd_was_invoked
    running,               \* WorkerManager.running
    needs_reconfigure,     \* WorkerManager.needs_reconfigure
    mpc,                   \* position of the WorkerManager thread
    reconfigure_calls,     \* number of calls of the reconfigure callback
    wpc,                   \* position of the Worker thread
    failures,              \* local `failures` of _pipeline_loop
    previous_get_pcd_was_invoked, \* local of _pipeline_loop
    oak,                   \* the OakCamera of the current `with` block
    acc,                   \* the accessor coroutines, one per modality
    now,                   \* time.time()
    pub,                   \* history: the frames published per modality
    hist,                  \* history: consecutive faults, stop() called
    packet                 \* the PointcloudPacket given to _set_pcd: the shape
                           \* of packet.points and of the array stored from it

vars == << user_wants_color, user_wants_depth, color_image, depth_map, pcd,
           get_pcd_was_invoked, running, needs_reconfigure, mpc,
           reconfigure_calls, wpc, failures, previous_get_pcd_was_invoked,
           oak, acc, now, pub, hist, packet >>

config == << user_wants_color, user_wants_depth >>
slots == << color_image, depth_map, pcd >>
manager == << running, needs_reconfigure, mpc, reconfigure_calls >>
worker == << wpc, failures, previous_get_pcd_was_invoked, oak >>

\* ---------------------------------------------------------------- data
\* Python None for a slot or an accessor result
None == [np_array |-> 0, captured_at |-> 0]

CapturedData(np_array, captured_at) ==
    [np_array |-> np_array, captured_at |-> captured_at]

\* the slot an accessor reads
Slot(m) ==
    CASE m = "color" -> color_image
      [] m = "depth" -> depth_map
      [] m = "pcd"   -> pcd

\* no OakCamera: before `with OakCamera() as oak` and after its __exit__
NoOak == [live |-> FALSE, color |-> FALSE, stereo |-> FALSE, pc |-> FALSE,
          demand |-> FALSE]

\* the shape of a numpy array of points: rows x cols x 3 coordinates, each
\* of itemsize bytes
Shape(rows, cols, itemsize) ==
    [rows |-> rows, cols |-> cols, itemsize |-> itemsize]

\* no array
NoArray == Shape(0, 0, 0)

\* no point cloud packet was given to _set_pcd; in Spec and FairSpec a frame
\* is known by the time of its delivery and its shape is left out
NoPacket == [points |-> NoArray, arr |-> NoArray]

\* ---------------------------------------------------------------- Init
\* an accessor that was not called yet; had_frame and saw_running remember,
\* for the call in progress, whether the slot was populated when the call
\* was issued and what the last read of manager.running returned; late
\* remembers that the call returned after stop()
NewAcc == [pc |-> "idle", result |-> None, had_frame |-> FALSE,
           saw_running |-> TRUE, late |-> FALSE]

NewPub == [last |-> [m \in Modalities |-> None],
           all |-> [m \in Modalities |-> {}]]

\* faults: failed pipeline attempts since the last completed round;
\* restarts: times the loop was left to restart the pipeline with PCD support
NewHist == [faults |-> 0, stop_called |-> FALSE, restarts |-> 0]

Init ==
    /\ user_wants_color \in BOOLEAN
    /\ user_wants_depth \in BOOLEAN
    /\ color_image = None
    /\ depth_map = None
    /\ pcd = None
    /\ get_pcd_was_invoked = FALSE
    /\ running = TRUE
    /\ needs_reconfigure = FALSE
    /\ mpc = "while"
    /\ reconfigure_calls = 0
    /\ wpc = "new"
    /\ failures = 0
    /\ previous_get_pcd_was_invoked = FALSE
    /\ oak = NoOak
    /\ acc = [m \in Modalities |-> NewAcc]
    /\ now = 1
    /\ pub = NewPub
    /\ hist = NewHist
    /\ packet = NoPacket

\* ---------------------------------------------------------------- WorkerManager
\* `while self.running:` of WorkerManager.run
ManagerWhile ==
    /\ mpc = "while"
    /\ mpc' = IF running THEN "if" ELSE "done"
    /\ UNCHANGED << config, packet, slots, get_pcd_was_invoked, running,
                    needs_reconfigure, reconfigure_calls, worker, acc, now,
                    pub, hist >>

\* ManagerIf that invokes the callback and leaves manager.running as it is
ManagerIf_KeepsRunning ==
    /\ mpc = "if"
    /\ reconfigure_calls' = IF needs_reconfigure THEN reconfigure_calls + 1
                                                 ELSE reconfigure_calls
    /\ mpc' = "while"
    /\ UNCHANGED << config, packet, slots, get_pcd_was_invoked, running,
                    needs_reconfigure, worker, acc, now, pub, hist >>

\* ManagerIf with the callback outside the `if` and no `self.running = False`
ManagerIf_Unguarded ==
    /\ mpc = "if"
    /\ reconfigure_calls' = reconfigure_calls + 1
    /\ mpc' = "while"
    /\ UNCHANGED << config, packet, slots, get_pcd_was_invoked, running,
                    needs_reconfigure, worker, acc, now, pub, hist >>

\* `if self.needs_reconfigure: self.reconfigure(); self.running = False`,
\* then `time.sleep(5)`
ManagerIf ==
    /\ mpc = "if"
    /\ IF needs_reconfigure
          THEN /\ reconfigure_calls' = reconfigure_calls + 1
               /\ running' = FALSE
          ELSE UNCHANGED << reconfigure_calls, running >>
    /\ mpc' = "while"
    /\ UNCHANGED << config, packet, slots, get_pcd_was_invoked, needs_reconfigure,
                    worker, acc, now, pub, hist >>

ManagerStep == ManagerWhile \/ ManagerIf

\* Worker.stop -> WorkerManager.stop: `self.running = False`
Stop ==
    /\ running' = FALSE
    /\ hist' = [hist EXCEPT !.stop_called = TRUE]
    /\ UNCHANGED << config, packet, slots, get_pcd_was_invoked, needs_reconfigure,
                    mpc, reconfigure_calls, worker, acc, now, pub >>

\* ---------------------------------------------------------------- accessors
\* an accessor call that has been issued and has not returned yet
Pending(m) == acc[m].pc \in {"test_slot", "test_running", "sleep", "return"}

\* the coroutine is executing on the event loop (it is not suspended)
Active(m) == acc[m].pc \in {"test_slot", "test_running", "return"}

\* the event loop is between two coroutine steps
LoopFree == \A m \in Modalities : ~Active(m)

\* the positions of the worker thread in the `while self.manager.running`
\* loop of _pipeline_loop, on a started pipeline
RunningPcs == {"loop_while", "pcd_cmp", "color", "depth", "poll_pcd"}

\* Call of a get_pcd that flips get_pcd_was_invoked at every call
Call_Toggle(m) ==
    /\ LoopFree
    /\ acc[m].pc = "idle"
    /\ acc' = [acc EXCEPT ![m] = [NewAcc EXCEPT !.pc = "test_slot",
                                               !.had_frame = (Slot(m) # None)]]
    /\ get_pcd_was_invoked' = IF m = "pcd" THEN ~get_pcd_was_invoked
                                           ELSE get_pcd_was_invoked
    /\ UNCHANGED << config, packet, slots, manager, worker, now, pub, hist >>

\* a consumer calls get_color_image / get_depth_map / get_pcd; get_pcd first
\* does `if not self.get_pcd_was_invoked: self.get_pcd_was_invoked = True`
Call(m) ==
    /\ LoopFree
    /\ acc[m].pc = "idle"
    /\ acc' = [acc EXCEPT ![m] = [NewAcc EXCEPT !.pc = "test_slot",
                                               !.had_frame = (Slot(m) # None)]]
    /\ get_pcd_was_invoked' = IF m = "pcd" THEN TRUE ELSE get_pcd_was_invoked
    /\ UNCHANGED << config, packet, slots, manager, worker, now, pub, hist >>

\* TestSlot of an accessor that returns the slot without waiting for a frame
TestSlot_NoWait(m) ==
    /\ acc[m].pc = "test_slot"
    /\ acc' = [acc EXCEPT ![m].pc = "return"]
    /\ UNCHANGED << config, packet, slots, get_pcd_was_invoked, manager, worker, now,
                    pub, hist >>

\* left operand of `while not self.<slot> and self.manager.running`
TestSlot(m) ==
    /\ acc[m].pc = "test_slot"
    /\ acc' = [acc EXCEPT ![m].pc = IF Slot(m) # None THEN "return"
                                                        ELSE "test_running"]
    /\ UNCHANGED << config, packet, slots, get_pcd_was_invoked, manager, worker, now,
                    pub, hist >>

\* TestRunning of a loop `while not self.<slot>` that never looks at
\* manager.running
TestRunning_NoStop(m) ==
    /\ acc[m].pc = "test_running"
    /\ acc' = [acc EXCEPT ![m].pc = "sleep"]
    /\ UNCHANGED << config, packet, slots, get_pcd_was_invoked, manager, worker, now,
                    pub, hist >>

\* right operand of the loop condition; when true, `await asyncio.sleep(1)`
\* suspends the coroutine
TestRunning(m) ==
    /\ acc[m].pc = "test_running"
    /\ acc' = [acc EXCEPT ![m].pc = IF running THEN "sleep" ELSE "return",
                          ![m].saw_running = running]
    /\ UNCHANGED << config, packet, slots, get_pcd_was_invoked, manager, worker, now,
                    pub, hist >>

\* `await asyncio.sleep(1)` completes and the event loop resumes the coroutine
Wake(m) ==
    /\ LoopFree
    /\ acc[m].pc = "sleep"
    /\ acc' = [acc EXCEPT ![m].pc = "test_slot"]
    /\ UNCHANGED << config, packet, slots, get_pcd_was_invoked, manager, worker, now,
                    pub, hist >>

\* Return of an accessor that answers None once the worker is stopped,
\* whatever the slot holds
Return_StoppedNone(m) ==
    /\ acc[m].pc = "return"
    /\ acc' = [acc EXCEPT ![m] = [NewAcc EXCEPT !.pc = "done",
                                               !.result = IF running
                                                             THEN Slot(m)
                                                             ELSE None,
                                               !.late = hist.stop_called]]
    /\ UNCHANGED << config, packet, slots, get_pcd_was_invoked, manager, worker, now,
                    pub, hist >>

\* `return self.<slot>`
Return(m) ==
    /\ acc[m].pc = "return"
    /\ acc' = [acc EXCEPT ![m] = [NewAcc EXCEPT !.pc = "done",
                                               !.result = Slot(m),
                                               !.late = hist.stop_called]]
    /\ UNCHANGED << config, packet, slots, get_pcd_was_invoked, manager, worker, now,
                    pub, hist >>

\* the awaiting consumer has taken the result; the coroutine is gone and the
\* accessor can be called again
Forget(m) ==
    /\ acc[m].pc = "done"
    /\ acc' = [acc EXCEPT ![m] = NewAcc]
    /\ UNCHANGED << config, packet, slots, get_pcd_was_invoked, manager, worker, now,
                    pub, hist >>

Accessor(m) ==
    TestSlot(m) \/ TestRunning(m) \/ Wake(m) \/ Return(m)

\* a consumer that awaits one accessor at a time
SeqCall(m) ==
    /\ \A m2 \in Modalities : acc[m2].pc = "idle"
    /\ Call(m)

\* ---------------------------------------------------------------- Worker
\* Thread.start() of the worker: run() begins
WorkerStart ==
    /\ wpc = "new"
    /\ wpc' = "run_while"
    /\ UNCHANGED << config, packet, slots, get_pcd_was_invoked, manager, failures,
                    previous_get_pcd_was_invoked, oak, acc, now, pub, hist >>

\* `while self.manager.running: self._pipeline_loop()` of Worker.run, and the
\* first statement of _pipeline_loop, `failures = 0`
RunWhile ==
    /\ wpc = "run_while"
    /\ IF running
          THEN /\ wpc' = "build"
               /\ failures' = 0
          ELSE /\ wpc' = "exited"
               /\ UNCHANGED failures
    /\ UNCHANGED << config, packet, slots, get_pcd_was_invoked, manager,
                    previous_get_pcd_was_invoked, oak, acc, now, pub, hist >>

\* Worker._configure_color: the color component exists iff user_wants_color
_configure_color(o) == [o EXCEPT !.color = user_wants_color]

\* Worker._configure_stereo: the stereo component and its _set_depth_map
\* callback exist iff user_wants_depth
_configure_stereo(o) == [o EXCEPT !.stereo = user_wants_depth]

\* _configure_pc that does not look at get_pcd_was_invoked
_configure_pc_Always(o) == [o EXCEPT !.pc = user_wants_depth]

\* Worker._configure_pc: the point cloud component and its _set_pcd callback
\* exist iff user_wants_depth and get_pcd_was_invoked
_configure_pc(o) == [o EXCEPT !.pc = user_wants_depth /\ get_pcd_was_invoked]

\* `with OakCamera() as oak:` is entered, then
\* `color = self._configure_color(oak)` and
\* `stereo = self._configure_stereo(oak, color)`
OakOpen ==
    /\ wpc = "build"
    /\ oak' = _configure_stereo(_configure_color([NoOak EXCEPT !.live = TRUE]))
    /\ wpc' = "cfg_pc"
    /\ UNCHANGED << config, packet, slots, get_pcd_was_invoked, manager, failures,
                    previous_get_pcd_was_invoked, acc, now, pub, hist >>

\* `self._configure_pc(oak, stereo, color)`; oak.demand remembers the value
\* get_pcd_was_invoked had when the pipeline was configured
ConfigurePc ==
    /\ wpc = "cfg_pc"
    /\ oak' = [_configure_pc(oak) EXCEPT !.demand = get_pcd_was_invoked]
    /\ wpc' = "snapshot"
    /\ UNCHANGED << config, packet, slots, get_pcd_was_invoked, manager, failures,
                    previous_get_pcd_was_invoked, acc, now, pub, hist >>

\* Snapshot that starts the pipeline and leaves the local as it was
Snapshot_Stale ==
    /\ wpc = "snapshot"
    /\ wpc' = "loop_while"
    /\ UNCHANGED << config, packet, slots, get_pcd_was_invoked, manager,
                    failures, previous_get_pcd_was_invoked, oak, acc, now, pub,
                    hist >>

\* `previous_get_pcd_was_invoked = self.get_pcd_was_invoked`, `oak.start()`
Snapshot ==
    /\ wpc = "snapshot"
    /\ previous_get_pcd_was_invoked' = get_pcd_was_invoked
    /\ wpc' = "loop_while"
    /\ UNCHANGED << config, packet, slots, get_pcd_was_invoked, manager, failures,
                    oak, acc, now, pub, hist >>

\* LoopWhile of a loop `while True:`
LoopWhile_Forever ==
    /\ wpc = "loop_while"
    /\ wpc' = "pcd_cmp"
    /\ UNCHANGED << config, packet, slots, get_pcd_was_invoked, manager, failures,
                    previous_get_pcd_was_invoked, oak, acc, now, pub, hist >>

\* `while self.manager.running:` of _pipeline_loop
LoopWhile ==
    /\ wpc = "loop_while"
    /\ wpc' = IF running THEN "pcd_cmp" ELSE "exit_with"
    /\ UNCHANGED << config, packet, slots, get_pcd_was_invoked, manager, failures,
                    previous_get_pcd_was_invoked, oak, acc, now, pub, hist >>

\* PcdCompare that restarts the pipeline only when depth is wanted
PcdCompare_DepthOnly ==
    /\ wpc = "pcd_cmp"
    /\ IF user_wants_depth
          /\ previous_get_pcd_was_invoked # get_pcd_was_invoked
          THEN /\ wpc' = "exit_with"
               /\ hist' = [hist EXCEPT !.restarts = hist.restarts + 1]
          ELSE /\ wpc' = "color"
               /\ UNCHANGED hist
    /\ UNCHANGED << config, packet, slots, get_pcd_was_invoked, manager,
                    failures, previous_get_pcd_was_invoked, oak, acc, now, pub >>

\* `if previous_get_pcd_was_invoked != self.get_pcd_was_invoked: break`
PcdCompare ==
    /\ wpc = "pcd_cmp"
    /\ IF previous_get_pcd_was_invoked # get_pcd_was_invoked
          THEN /\ wpc' = "exit_with"
               /\ hist' = [hist EXCEPT !.restarts = hist.restarts + 1]
          ELSE /\ wpc' = "color"
               /\ UNCHANGED hist
    /\ UNCHANGED << config, packet, slots, get_pcd_was_invoked, manager, failures,
                    previous_get_pcd_was_invoked, oak, acc, now, pub >>

\* the content of the frame the device delivers at time `now`
Frame == now

\* the history after the device has delivered frame arr on modality m at
\* time `now` and the worker has published it
Published(m, arr) ==
    [pub EXCEPT !.last[m] = CapturedData(arr, now),
                !.all[m] = pub.all[m] \cup {CapturedData(arr, now)}]

\* _set_color_image that updates the CapturedData of the slot in place and
\* leaves its captured_at
_set_color_image_InPlace(arr) ==
    /\ color_image' = IF color_image = None
                         THEN CapturedData(arr, now)
                         ELSE [color_image EXCEPT !.np_array = arr]
    /\ now' = now + 1
    /\ UNCHANGED << depth_map, pcd >>

\* Worker._set_color_image: one assignment of a fresh CapturedData
_set_color_image(arr) ==
    /\ color_image' = CapturedData(arr, now)
    /\ now' = now + 1
    /\ UNCHANGED << depth_map, pcd >>

\* Worker._set_depth_map
_set_depth_map(arr) ==
    /\ depth_map' = CapturedData(arr, now)
    /\ now' = now + 1
    /\ UNCHANGED << color_image, pcd >>

\* Worker._set_pcd
_set_pcd(arr) ==
    /\ pcd' = CapturedData(arr, now)
    /\ now' = now + 1
    /\ UNCHANGED << color_image, depth_map >>

\* numpy's ndarray.nbytes
NBytes(arr) == arr.rows * arr.cols * 3 * arr.itemsize

\* the length of a[::2] for an axis of length n
EveryOther(n) == (n + 1) \div 2

\* `arr[::2, ::2, :]`
Subsample(arr) == [arr EXCEPT !.rows = EveryOther(arr.rows),
                              !.cols = EveryOther(arr.cols)]

\* the local `arr` of _set_pcd when the CapturedData is built
StoredArr(points) ==
    IF NBytes(points) > MAX_GRPC_MESSAGE_BYTE_COUNT
       THEN Subsample(points)
       ELSE points

\* Worker._set_pcd, called by oak.poll() with a packet whose points have the
\* shape packet.points
SetPcd ==
    /\ packet.points # NoArray
    /\ packet.arr = NoArray
    /\ packet' = [packet EXCEPT !.arr = StoredArr(packet.points)]
    /\ _set_pcd(Frame)
    /\ pub' = Published("pcd", Frame)
    /\ UNCHANGED << config, get_pcd_was_invoked, manager, worker, acc, hist >>

\* Worker._handle_color_output: tryGet() on the preview queue yields a frame
\* or nothing; nothing is even asked when color is not wanted
_handle_color_output ==
    /\ wpc = "color"
    /\ \/ /\ user_wants_color
          /\ now <= MaxFrames
          /\ _set_color_image(Frame)
          /\ pub' = Published("color", Frame)
       \/ UNCHANGED << slots, now, pub >>
    /\ wpc' = "depth"
    /\ UNCHANGED << config, packet, get_pcd_was_invoked, manager, failures,
                    previous_get_pcd_was_invoked, oak, acc, hist >>

\* _handle_depth_and_pcd_output that takes a depth frame from the device
\* without asking whether depth is wanted
_handle_depth_and_pcd_output_Unchecked ==
    /\ wpc = "depth"
    /\ \/ /\ now <= MaxFrames
          /\ _set_depth_map(Frame)
          /\ pub' = Published("depth", Frame)
       \/ UNCHANGED << slots, now, pub >>
    /\ wpc' = "poll_pcd"
    /\ UNCHANGED << config, packet, get_pcd_was_invoked, manager, failures,
                    previous_get_pcd_was_invoked, oak, acc, hist >>

\* Worker._handle_depth_and_pcd_output: oak.poll() when depth is wanted; the
\* poll first serves the stereo callback, if a depth packet is there
_handle_depth_and_pcd_output ==
    /\ wpc = "depth"
    /\ \/ /\ user_wants_depth
          /\ oak.stereo
          /\ now <= MaxFrames
          /\ _set_depth_map(Frame)
          /\ pub' = Published("depth", Frame)
       \/ UNCHANGED << slots, now, pub >>
    /\ wpc' = "poll_pcd"
    /\ UNCHANGED << config, packet, get_pcd_was_invoked, manager, failures,
                    previous_get_pcd_was_invoked, oak, acc, hist >>

\* the rest of oak.poll(): the point cloud callback, if the pipeline has the
\* component and a packet is there; then the round of the loop body is over
PollPcd ==
    /\ wpc = "poll_pcd"
    /\ \/ /\ user_wants_depth
          /\ oak.pc
          /\ now <= MaxFrames
          /\ _set_pcd(Frame)
          /\ pub' = Published("pcd", Frame)
       \/ UNCHANGED << slots, now, pub >>
    /\ hist' = [hist EXCEPT !.faults = 0]
    /\ wpc' = "loop_while"
    /\ UNCHANGED << config, packet, get_pcd_was_invoked, manager, failures,
                    previous_get_pcd_was_invoked, oak, acc >>

\* ExitWith of a restart that also empties the slots
ExitWith_ClearsSlots ==
    /\ wpc = "exit_with"
    /\ oak' = NoOak
    /\ color_image' = None
    /\ depth_map' = None
    /\ pcd' = None
    /\ wpc' = "run_while"
    /\ UNCHANGED << config, packet, get_pcd_was_invoked, manager, failures,
                    previous_get_pcd_was_invoked, acc, now, pub, hist >>

\* ExitWith with no `with` block: the device is not released
ExitWith_NoRelease ==
    /\ wpc = "exit_with"
    /\ wpc' = "run_while"
    /\ UNCHANGED << config, packet, slots, get_pcd_was_invoked, manager,
                    failures, previous_get_pcd_was_invoked, oak, acc, now, pub,
                    hist >>

\* the `with` block is left normally: OakCamera.__exit__ releases the device;
\* then `finally:`, and _pipeline_loop returns to Worker.run
ExitWith ==
    /\ wpc = "exit_with"
    /\ oak' = NoOak
    /\ wpc' = "run_while"
    /\ UNCHANGED << config, packet, slots, get_pcd_was_invoked, manager, failures,
                    previous_get_pcd_was_invoked, acc, now, pub, hist >>

\* the positions of the worker thread inside `with OakCamera() as oak:`
LivePcs == {"cfg_pc", "snapshot", "exit_with"} \cup RunningPcs

\* the statements of _pipeline_loop that call into the device SDK
RaiseSites == {"build", "cfg_pc", "snapshot", "color", "depth", "poll_pcd"}

\* InTry of a `try:` that starts inside the `with` block, around the loop
InTry_LoopOnly(pc) ==
    pc \in {"loop_while", "pcd_cmp", "color", "depth", "poll_pcd"}

\* the statements of _pipeline_loop inside `try:`
InTry(pc) ==
    pc \in {"build", "cfg_pc", "snapshot", "loop_while", "pcd_cmp", "color",
            "depth", "poll_pcd", "exit_with"}

\* a statement raises: the `with` block, if entered, releases the device on
\* the way out, and `except Exception` catches what was raised inside `try`
Raise ==
    /\ wpc \in RaiseSites
    /\ hist.faults < MaxFaults
    /\ oak' = NoOak
    /\ wpc' = IF InTry(wpc) THEN "except" ELSE "crashed"
    /\ hist' = [hist EXCEPT !.faults = hist.faults + 1]
    /\ UNCHANGED << config, packet, slots, get_pcd_was_invoked, manager, failures,
                    previous_get_pcd_was_invoked, acc, now, pub >>

\* a fault of the device that is not followed by another one before a round
\* of the loop has completed
RaiseOnce ==
    /\ hist.faults = 0
    /\ Raise

\* `except Exception as e:` of _pipeline_loop, then `finally:`, and
\* _pipeline_loop returns to Worker.run
Except ==
    /\ wpc = "except"
    /\ failures' = failures + 1
    /\ needs_reconfigure' = IF failures' > MAX_PIPELINE_FAILURES
                               THEN TRUE ELSE needs_reconfigure
    /\ wpc' = "run_while"
    /\ UNCHANGED << config, packet, slots, get_pcd_was_invoked, running, mpc,
                    reconfigure_calls, previous_get_pcd_was_invoked, oak, acc,
                    now, pub, hist >>

\* the steps of the worker thread that are not a raised exception
WorkerStep ==
    \/ RunWhile
    \/ OakOpen
    \/ ConfigurePc
    \/ Snapshot
    \/ LoopWhile
    \/ PcdCompare
    \/ _handle_color_output
    \/ _handle_depth_and_pcd_output
    \/ PollPcd
    \/ ExitWith
    \/ Except

\* ---------------------------------------------------------------- Spec
\* consumers call the accessors concurrently, the device has isolated faults
Next ==
    \/ WorkerStart
    \/ WorkerStep
    \/ RaiseOnce
    \/ ManagerStep
    \/ Stop
    \/ \E m \in Modalities : Call(m)
    \/ \E m \in Modalities : Accessor(m)
    \/ \E m \in Modalities : Forget(m)

Spec == Init /\ [][Next]_vars

\* one consumer calls the accessors one after the other, the device fails up
\* to MaxFaults times in a row
NextSeq ==
    \/ WorkerStart
    \/ WorkerStep
    \/ Raise
    \/ ManagerStep
    \/ Stop
    \/ \E m \in Modalities : SeqCall(m)
    \/ \E m \in Modalities : Accessor(m)
    \/ \E m \in Modalities : Forget(m)

\* The two threads are scheduled by the operating system and a coroutine
\* whose sleep is over is resumed by the event loop.  Nothing obliges the
\* device to fail, a consumer to call, or anyone to stop the worker.
FairSpec ==
    /\ Init
    /\ [][NextSeq]_vars
    /\ WF_vars(WorkerStep)
    /\ WF_vars(ManagerStep)
    /\ \A m \in Modalities : WF_vars(Accessor(m))

\* `self.manager.needs_reconfigure = True`, done by the holder of the manager
\* at a time of its choosing: the assignment of line 134 without the test of
\* line 133, which never lets _pipeline_loop reach it
SetNeedsReconfigure ==
    /\ ~needs_reconfigure
    /\ needs_reconfigure' = TRUE
    /\ UNCHANGED << config, packet, slots, get_pcd_was_invoked, running, mpc,
                    reconfigure_calls, worker, acc, now, pub, hist >>

\* the worker of FairSpec with isolated faults, and a holder of the manager
\* that may ask for the reconfiguration
ManagerNext ==
    \/ WorkerStart
    \/ WorkerStep
    \/ RaiseOnce
    \/ ManagerStep
    \/ Stop
    \/ SetNeedsReconfigure
    \/ \E m \in Modalities : SeqCall(m)
    \/ \E m \in Modalities : Accessor(m)
    \/ \E m \in Modalities : Forget(m)

\* WorkerManager with a needs_reconfigure that does become true
ManagerSpec ==
    /\ Init
    /\ [][ManagerNext]_vars
    /\ WF_vars(WorkerStep)
    /\ WF_vars(ManagerStep)
    /\ \A m \in Modalities : WF_vars(Accessor(m))

\* the floating point types a point coordinate can have
ItemSizes == {2, 4, 8}

\* the shapes of the point clouds the device delivers, up to the 1080 x 1920
\* of the sensor
Shapes ==
    { Shape(135 * r, 240 * c, i) :
        r \in 1..MaxScale, c \in 1..MaxScale, i \in ItemSizes }

\* a worker with depth, running a pipeline with the point cloud component,
\* when oak.poll() has a point cloud packet of some shape to deliver
PayloadInit ==
    /\ user_wants_color \in BOOLEAN
    /\ user_wants_depth = TRUE
    /\ color_image = None
    /\ depth_map = None
    /\ pcd = None
    /\ get_pcd_was_invoked = TRUE
    /\ running = TRUE
    /\ needs_reconfigure = FALSE
    /\ mpc = "while"
    /\ reconfigure_calls = 0
    /\ wpc = "poll_pcd"
    /\ failures = 0
    /\ previous_get_pcd_was_invoked = TRUE
    /\ oak = [live |-> TRUE, color |-> user_wants_color, stereo |-> TRUE,
              pc |-> TRUE, demand |-> TRUE]
    /\ acc = [m \in Modalities |-> NewAcc]
    /\ now = 1
    /\ pub = NewPub
    /\ hist = NewHist
    /\ \E points \in Shapes : packet = [points |-> points, arr |-> NoArray]

PayloadNext == SetPcd

\* _set_pcd on every shape of point cloud
PayloadSpec == PayloadInit /\ [][PayloadNext]_vars

\* ---------------------------------------------------------------- claims
\* the step in which accessor m returns
Returns(m) == acc[m].pc = "return" /\ acc'[m].pc = "done"

\* C1: once manager.running is false, the accessor call that is pending
\* returns, and no accessor begins a polling sleep any more: a pending call
\* finishes at most the sleep it is in, a call issued afterwards never sleeps.
C1_AccessorsResolveAfterStop ==
    /\ (~running) ~> (\A m \in Modalities : ~Pending(m))
    /\ [][\A m \in Modalities :
             (acc[m].pc # "sleep" /\ acc'[m].pc = "sleep") => running]_vars

C1_Witness ==
    \E m \in Modalities :
        /\ hist.stop_called
        /\ acc[m].pc = "done"
        /\ acc[m].late
        /\ acc[m].result = None

\* C2, as claimed: an accessor call that returns after stop() returns None.
C2_Original ==
    \A m \in Modalities :
        (acc[m].pc = "done" /\ acc[m].late) => acc[m].result = None

\* C2, amended: an accessor call that returns after stop() returns the frame
\* most recently published on its modality, and None only when no frame was
\* ever published on it.
C2_LateReturnsLatestFrame ==
    [][\A m \in Modalities :
          (Returns(m) /\ acc'[m].late) => acc'[m].result = pub.last[m]]_vars

C2_Witness ==
    \E m \in Modalities :
        /\ acc[m].pc = "done"
        /\ acc[m].late
        /\ acc[m].result # None

\* C3: a call issued on a populated slot never waits and returns a frame; a
\* call returns None only if its last read of manager.running gave false,
\* so only when the worker is stopped.
C3_NoneMeansStopped ==
    /\ [](\A m \in Modalities :
             acc[m].had_frame => acc[m].pc \in {"test_slot", "return"})
    /\ [][\A m \in Modalities :
             Returns(m) =>
                /\ acc[m].had_frame => acc'[m].result # None
                /\ acc'[m].result = None => (~acc[m].saw_running /\ ~running)
         ]_vars

C3_Witness ==
    \E m \in Modalities :
        /\ running
        /\ acc[m].pc = "done"
        /\ acc[m].result # None

\* C4, as claimed: after more than MAX_PIPELINE_FAILURES consecutive failed
\* attempts have been handled, manager.needs_reconfigure is true.
C4_Claim ==
    (hist.faults > MAX_PIPELINE_FAILURES /\ wpc # "except")
        => needs_reconfigure

C6_Original ==
    (hist.restarts > 0 /\ wpc \in RunningPcs /\ previous_get_pcd_was_invoked)
        => oak.pc

\* C6, amended: when get_pcd_was_invoked becomes true under a running
\* pipeline, the loop leaves RUNNING and releases the pipeline; the pipeline
\* that runs afterwards has the point cloud component exactly when depth is
\* wanted, and its color and stereo components as configured; pcd is only
\* published by a pipeline configured with the flag true.
C6_LazyPointCloud ==
    /\ []((hist.restarts > 0 /\ wpc \in RunningPcs /\ previous_get_pcd_was_invoked)
             => /\ oak.pc = user_wants_depth
                /\ oak.color = user_wants_color
                /\ oak.stereo = user_wants_depth)
    /\ [][pcd' # pcd => (oak.pc /\ oak.demand)]_vars
    /\ (wpc \in RunningPcs
           /\ previous_get_pcd_was_invoked # get_pcd_was_invoked)
          ~> ~oak.live

C6_Witness ==
    /\ hist.restarts > 0
    /\ wpc \in RunningPcs
    /\ oak.pc
    /\ pcd # None

\* C7: manager.running never goes back to true; once it is false the worker
\* starts no new round and no new build, and the worker thread ends with the
\* pipeline released.
C7_CooperativeShutdown ==
    /\ [][~running => ~running']_vars
    /\ [][(~running /\ wpc' # wpc) => wpc' \notin {"build", "pcd_cmp"}]_vars
    /\ (~running) ~> (wpc \in {"new", "exited"} /\ ~oak.live)

C7_Witness ==
    /\ hist.stop_called
    /\ wpc = "exited"
    /\ ~oak.live
    /\ now > 1

\* C8: with depth disabled depth_map stays empty, get_depth_map leaves its
\* loop only after stop() and returns None; get_color_image returns None only
\* after stop().
C8_DisabledDepthNeverPublished ==
    ~user_wants_depth =>
        /\ depth_map = None
        /\ acc["depth"].pc \in {"return", "done"} => hist.stop_called
        /\ acc["depth"].pc = "done" => acc["depth"].result = None
        /\ (acc["color"].pc = "done" /\ acc["color"].result = None)
              => hist.stop_called

C8_Witness ==
    /\ ~user_wants_depth
    /\ user_wants_color
    /\ running
    /\ acc["depth"].pc = "sleep"
    /\ acc["color"].pc = "done"
    /\ acc["color"].result # None

\* C9: every slot holds nothing or exactly the frame and capture time of the
\* latest publish on its modality; what an accessor returns is the latest
\* publish at the time of the return, never parts of two publishes.
C9_AtomicSlots ==
    /\ [](\A m \in Modalities :
             /\ Slot(m) = pub.last[m]
             /\ acc[m].pc = "done" => acc[m].result \in {None} \cup pub.all[m])
    /\ [][\A m \in Modalities :
             Returns(m) => acc'[m].result = pub.last[m]]_vars

C9_Witness ==
    \E m \in Modalities :
        /\ Cardinality(pub.all[m]) = 2
        /\ acc[m].pc = "done"
        /\ acc[m].result = pub.last[m]

\* C10: an exception of the pipeline never ends the worker thread; when it
\* is handled the pipeline is released, the handler returns to Worker.run,
\* and Worker.run builds again unless the worker is stopped.
C10_ErrorsAbsorbed ==
    /\ [](wpc # "crashed" /\ (wpc = "except" => ~oak.live))
    /\ [][(wpc = "except" /\ wpc' # wpc) => wpc' = "run_while"]_vars
    /\ [][(wpc = "run_while" /\ wpc' # wpc /\ running) => wpc' = "build"]_vars

C10_Witness ==
    /\ hist.faults > 0
    /\ oak.live

\* the step in which get_pcd is called
CallsPcd == acc["pcd"].pc = "idle" /\ acc'["pcd"].pc = "test_slot"

\* C11: get_pcd_was_invoked is false at construction, is true after every
\* get_pcd call, changes only in a get_pcd call and never goes back to false;
\* a get_pcd call made when the flag is already true changes nothing but the
\* accessor coroutine it creates.
C11_DemandFlagMonotonic ==
    /\ ~get_pcd_was_invoked
    /\ [][get_pcd_was_invoked => get_pcd_was_invoked']_vars
    /\ [][CallsPcd => get_pcd_was_invoked']_vars
    /\ [][get_pcd_was_invoked' # get_pcd_was_invoked => CallsPcd]_vars
    /\ [][(CallsPcd /\ get_pcd_was_invoked)
             => UNCHANGED << config, packet, slots, get_pcd_was_invoked, manager,
                             worker, now, pub, hist >>]_vars

\* a second get_pcd call (the slot was populated when it was issued), after a
\* pipeline restart and after stop(), and the flag is still true
C11_Witness ==
    /\ get_pcd_was_invoked
    /\ acc["pcd"].had_frame
    /\ hist.restarts > 0
    /\ hist.stop_called

\* C12, as claimed: the array of every frame stored in the pcd slot has at
\* most MAX_GRPC_MESSAGE_BYTE_COUNT bytes.
C12_Claim ==
    (pcd # None /\ packet.arr # NoArray)
        => NBytes(packet.arr) <= MAX_GRPC_MESSAGE_BYTE_COUNT

\* C13, as claimed: the failure counter is kept from one attempt to the next
\* and reset only by a completed round, so outside the exception handler it
\* equals the number of failed attempts since the last completed round.
C13_Claim ==
    wpc \notin {"except", "crashed"} => failures = hist.faults

C15_SlotsSurviveRestarts ==
    /\ [][\A m \in Modalities : Slot(m) # None => Slot(m)' # None]_vars
    /\ [][slots' # slots
             => /\ wpc \in {"color", "depth", "poll_pcd"}
                /\ wpc' \in {"depth", "poll_pcd", "loop_while"}]_vars
    /\ [][(running' # running \/ wpc' \notin RunningPcs)
             => slots' = slots]_vars
    /\ [][\A m \in Modalities :
             (Returns(m) /\ acc[m].had_frame) => acc'[m].result # None]_vars

\* a color frame published before a restart, a failed rebuild and stop() is
\* returned by a call issued after them
C15_Witness ==
    /\ hist.restarts > 0
    /\ hist.faults > 0
    /\ hist.stop_called
    /\ wpc = "exited"
    /\ acc["color"].pc = "done"
    /\ acc["color"].late
    /\ acc["color"].result = color_image
    /\ color_image # None

\* C16: the worker has a live pipeline exactly while its thread is inside the
\* `with` block, so when a build starts the previous pipeline is released;
\* only steps of the worker thread create or release it; the loop is left
\* only towards the end of the `with` block or the exception handler, and
\* both release the pipeline before Worker.run is reached again.
C16_ExclusivePipeline ==
    /\ [](oak.live <=> wpc \in LivePcs)
    /\ [][oak' # oak => wpc' # wpc]_vars
    /\ [][(~oak.live /\ oak'.live) => (wpc = "build" /\ wpc' = "cfg_pc")]_vars
    /\ [][(wpc \in RunningPcs /\ wpc' \notin RunningPcs)
             => wpc' \in {"exit_with", "except"}]_vars
    /\ [][(wpc \in {"exit_with", "except"} /\ wpc' # wpc)
             => (wpc' = "run_while" /\ ~oak'.live)]_vars

\* the third pipeline of a worker, after a restart and a failed rebuild
C16_Witness ==
    /\ wpc = "cfg_pc"
    /\ oak.live
    /\ hist.restarts > 0
    /\ hist.faults > 0

\* C17: the loop is left for a point cloud restart at most once in the life
\* of a worker; the step that leaves it, and the release that follows, change
\* neither the failure counter nor needs_reconfigure nor the count of faults.
C17_RestartOnceAndFree ==
    /\ [](hist.restarts <= 1)
    /\ [][hist'.restarts # hist.restarts
             => /\ wpc = "pcd_cmp" /\ wpc' = "exit_with"
                /\ failures' = failures
                /\ needs_reconfigure' = needs_reconfigure
                /\ hist'.faults = hist.faults]_vars
    /\ [][(wpc = "exit_with" /\ wpc' # wpc)
             => /\ wpc' = "run_while"
                /\ failures' = failures
                /\ needs_reconfigure' = needs_reconfigure
                /\ hist'.faults = hist.faults]_vars

\* a get_pcd call issued on a populated pcd slot (so not the first one),
\* under the pipeline that runs after the restart
C17_Witness ==
    /\ hist.restarts = 1
    /\ wpc \in RunningPcs
    /\ running
    /\ acc["pcd"].had_frame
    /\ acc["pcd"].pc = "return"

\* C18, as claimed: with depth wanted, a running loop whose snapshot
\* previous_get_pcd_was_invoked is true runs a pipeline with the point cloud
\* component.
C18_Claim ==
    (user_wants_depth /\ wpc \in RunningPcs /\ previous_get_pcd_was_invoked)
        => oak.pc

====
